---- MODULE Spec2Model ----
(***************************************************************************)
(* The skills selection modal of deepagents_cli                            *)
(* (src/deepagents_cli/widgets/skills_modal.py): the widget state of one   *)
(* SkillsModal instance and its event handlers, one action per handler.    *)
(* Python indexes are kept 0-based: the card at selected_index i is        *)
(* skill_cards[i + 1].                                                     *)
(***************************************************************************)
EXTENDS Integers, Sequences, FiniteSets, TLC

\* ------------------------------------------------------------- bounds
\* Longest catalog list_skills returns in the model.
MaxSkills == 3
\* Most messages the modal posts before the model stops delivering events
\* that would post one more.
MaxPosted == 2

\* Most cards in the grid when only the navigation handlers are exercised.
MaxCount == 8

\* Most messages the chat input posts in the model.
MaxChatPosted == 3

\* Longest run of whitespace and quote characters put before and after a
\* model output.
MaxPad == 3

\* Longest text between the padding of a model output.
MaxTitleLen == 32

\* Longest first message passed to generate_title.
MaxMessageLen == 202

\* Longest description of a skill card.
MaxDescriptionLen == 42

\* Skill names the catalog loader can return.
Names == {"x", "y"}

\* ------------------------------------------------------------- values
\* Python's None, and a present value, for `str | None`.
None == <<>>
Some(v) == <<v>>

\* skills_messages.py: the two notifications the modal posts, as the call
\* post_message(message) the handler makes.
SkillsSelected(skill_name) ==
    [call |-> "post_message", kind |-> "SkillsSelected", skill_name |-> Some(skill_name)]
SkillsCancelled ==
    [call |-> "post_message", kind |-> "SkillsCancelled", skill_name |-> None]

\* The call dismiss(result) of ModalScreen[str | None].
Dismiss(result) == [call |-> "dismiss", kind |-> "result", skill_name |-> result]

\* list_skills() results: every sequence of records {name} of bounded length.
\* The loader's description and source fields are copied into the card and
\* read by no handler of the modal.
SeqUpTo(S, n) == UNION {[1..k -> S] : k \in 0..n}
Catalogs == SeqUpTo([name : Names], MaxSkills)

\* Agent identifiers and project skills directories a modal is constructed with.
Agents == {"agent", "test-agent"}
ProjectDirs == {None, Some("project/skills")}

\* settings.get_user_skills_dir(agent): the directory of that agent's skills.
UserSkillsDir(a) == <<"skills", a>>

\* The two calls _load_skills makes outside the modal.
GetUserSkillsDirCall(a) == [fn |-> "get_user_skills_dir", args |-> <<Some(a)>>]
ListSkillsCall(user_skills_dir, project_dir) ==
    [fn |-> "list_skills", args |-> <<user_skills_dir, project_dir>>]

\* skills_messages.py: ShowSkillsModal(agent="agent"), with a the argument the
\* caller passes, None when it passes none.
ShowSkillsModal_fixed_agent(a) == [kind |-> "ShowSkillsModal", agent |-> "agent"]

ShowSkillsModal(a) ==
    [kind |-> "ShowSkillsModal", agent |-> IF a = None THEN "agent" ELSE a[1]]

\* What the chat input posts for a submitted line that is no trigger command.
ChatSubmitted == [kind |-> "Submitted", agent |-> ""]

\* Agent identifiers a chat input is configured with, and lines a user types.
ChatAgents == {None, Some("test-agent"), Some("custom-agent")}
ChatTexts == {"/skills", "/skills now", "hello"}

\* The trigger command: the keyword alone, with no argument.
IsSkillsCommand(text) == text = "/skills"

\* What self.model.ainvoke does: it returns a response with this content, or
\* it raises an Exception.  Text is a sequence of characters.
Returns(content) == [raises |-> FALSE, content |-> content]
Raises == [raises |-> TRUE, content |-> <<>>]

\* A widget that can be the target of a click and is not a skill card
\* (header, footer, grid background, empty-state message).
OtherWidget == -1

VARIABLES
    grid,            \* self._grid: mounted (not None), display, children (card names)
    empty_message,   \* self._empty_message: mounted (not None), display
    skill_cards,     \* self._skill_cards: sequence of [name, selected]
    selected_index,  \* self._selected_index
    focused,         \* index of the card that last received focus(), -1 if none
    skills,          \* what the latest list_skills() call returned
    effects,         \* the post_message and dismiss calls made so far, in order
    raised,          \* "" or the exception a handler raised
    last,            \* the handler that ran last, the index it started from and
                     \* the calls it made to the settings and to the loader
    pressed,         \* while key presses are recorded: the index recording
                     \* started on, then each navigation key pressed with the
                     \* index it ended on; <<>> while they are not
    agent,               \* self._agent
    project_skills_dir,  \* self._project_skills_dir
    chat_agent,      \* ChatInput: the configured agent identifier, None if none
    chat_text,       \* ChatInput: the text in the input buffer
    chat_posted,     \* ChatInput: the messages it has posted, in order
    shell_awaiting,  \* the shell has pushed the modal and awaits its result
    first_message,   \* generate_title: its argument
    response,        \* what self.model.ainvoke returns or raises when called
    ainvoke_calls,   \* generate_title: the message parts of the prompts it
                     \* passed to self.model.ainvoke
    title,           \* generate_title: the local title after _clean_title
    result,          \* generate_title: the value returned
    pc,              \* generate_title: "new" before the call, then "returned",
                     \* or "raised" if an exception left the call
    description,     \* SkillCard._description
    truncated_desc   \* SkillCard.render: the description it appended, None
                     \* before the first render

vars == <<grid, empty_message, skill_cards, selected_index, focused, skills,
          effects, raised, last, pressed, agent, project_skills_dir,
          chat_agent, chat_text, chat_posted, shell_awaiting,
          first_message, ainvoke_calls, response, title, result, pc,
          description, truncated_desc>>

\* The application shell's side of the modal.
shell == <<shell_awaiting>>

\* One TitleGenerator and one call of generate_title.
generator == <<first_message, ainvoke_calls, response, title, result, pc>>

\* One SkillCard outside the modal.
rendered_card == <<description, truncated_desc>>

\* The chat input; no handler of the modal touches it.
chat == <<chat_agent, chat_text, chat_posted>>

\* The modal; no handler of the chat input touches it.
modal == <<grid, empty_message, skill_cards, selected_index, focused, skills,
           effects, raised, last, pressed, agent, project_skills_dir>>

\* The constructor's arguments; no handler assigns them.
ctor == <<agent, project_skills_dir>>

\* The messages posted so far, and the results the modal was dismissed with.
IsPost(e) == e.call = "post_message"
IsDismiss(e) == e.call = "dismiss"
posted == SelectSeq(effects, IsPost)
dismissed == SelectSeq(effects, IsDismiss)

\* ------------------------------------------------------------- helpers
\* SkillCard(name=...): a new card carries no "selected" class.
SkillCard(name) == [name |-> name, selected |-> FALSE]

\* SkillCard.get_skill_name
get_skill_name(card) == card.name

\* The for-loop of _update_selection: add_class on the card at index,
\* remove_class on every other card.
MarkSelected_stale(cards, index) ==
    [i \in 1..Len(cards) |-> [cards[i] EXCEPT !.selected = cards[i].selected \/ (i - 1 = index)]]

MarkSelected(cards, index) ==
    [i \in 1..Len(cards) |-> [cards[i] EXCEPT !.selected = (i - 1 = index)]]

\* _update_selection: the cards after the call.
update_selection_cards(cards, index) ==
    IF cards = <<>> THEN cards ELSE MarkSelected(cards, index)

\* _update_selection: which card holds the focus after the call.
update_selection_focus(cards, index, focus) ==
    IF cards = <<>> THEN focus
    ELSE IF 0 <= index /\ index < Len(cards) THEN index
    ELSE focus

\* The index arithmetic of the four navigation handlers.
navigate_up_index_nowrap(index, count) == index - 2

navigate_up_index_clamp(index, count) ==
    IF index - 2 < 0 THEN index ELSE index - 2

navigate_up_index_mod(index, count) == (index - 2) % count

navigate_up_index(index, count) ==
    LET new_index == index - 2
    IN  IF new_index < 0 THEN count - 1 ELSE new_index

navigate_down_index_nowrap(index, count) == index + 2

navigate_down_index_mod(index, count) == (index + 2) % count

navigate_down_index(index, count) ==
    LET new_index == index + 2
    IN  IF new_index >= count THEN 0 ELSE new_index

navigate_left_index_clamp(index, count) ==
    IF index - 1 < 0 THEN index ELSE index - 1

navigate_left_index(index, count) ==
    LET new_index == index - 1
    IN  IF new_index < 0 THEN count - 1 ELSE new_index

navigate_right_index_skip(index, count) ==
    LET new_index == index + 2
    IN  IF new_index >= count THEN 0 ELSE new_index

navigate_right_index_clamp(index, count) ==
    IF index + 1 >= count THEN index ELSE index + 1

navigate_right_index(index, count) ==
    LET new_index == index + 1
    IN  IF new_index >= count THEN 0 ELSE new_index

\* The early return of action_navigate_up, action_navigate_left and
\* action_select: `not self._skill_cards or self._selected_index < 0`.
NoSelection(cards, index) == cards = <<>> \/ index < 0

\* The early return of action_navigate_down and action_navigate_right:
\* `not self._skill_cards` only.
NoCards(cards) == cards = <<>>

\* The loop of _load_skills: one card per record, in order.
CreateCards_prepend(sk) == [i \in 1..Len(sk) |-> SkillCard(sk[Len(sk) + 1 - i].name)]

CreateCards(sk) == [i \in 1..Len(sk) |-> SkillCard(sk[i].name)]

Event(op) == [op |-> op, from_index |-> selected_index, calls |-> <<>>]

\* The record of key presses after one more press, and the most presses it
\* holds: one for each card of the longest card list.
Recorded(op, index) ==
    IF pressed = <<>> THEN pressed ELSE Append(pressed, [op |-> op, index |-> index])

CanPress == pressed = <<>> \/ Len(pressed) <= MaxCount

\* ------------------------------------------------------------- initial state
\* SkillsModal.__init__(agent, project_skills_dir)
Constructed(a, p) ==
    /\ agent = a
    /\ project_skills_dir = p
    /\ grid = [mounted |-> FALSE, display |-> FALSE, children |-> <<>>]
    /\ empty_message = [mounted |-> FALSE, display |-> FALSE]
    /\ skill_cards = <<>>
    /\ selected_index = -1
    /\ focused = -1
    /\ skills = <<>>
    /\ effects = <<>>
    /\ raised = ""
    /\ last = [op |-> "init", from_index |-> -1, calls |-> <<>>]
    /\ pressed = <<>>

\* ChatInput(agent=a), its buffer empty.
ChatInputConstructed(a) ==
    /\ chat_agent = a
    /\ chat_text = ""
    /\ chat_posted = <<>>

\* The shell has pushed the modal with its callback and awaits the result.
ModalPushed == shell_awaiting = TRUE

\* TitleGenerator(model) with a model that responds with outcome, before
\* generate_title(message) is called.
TitleGeneratorConstructed(message, outcome) ==
    /\ first_message = message
    /\ response = outcome
    /\ ainvoke_calls = <<>>
    /\ title = <<>>
    /\ result = None
    /\ pc = "new"

\* SkillCard(name, description=d, source), not rendered yet.
SkillCardConstructed(d) ==
    /\ description = d
    /\ truncated_desc = None

\* SkillsModal(): the defaults agent="agent", project_skills_dir=None.
Init ==
    /\ Constructed("agent", None)
    /\ ChatInputConstructed(None)
    /\ ModalPushed
    /\ TitleGeneratorConstructed(<<>>, Returns(<<>>))
    /\ SkillCardConstructed(<<>>)

\* ------------------------------------------------------------- handlers
\* compose: creates the grid (displayed) and the empty-state message (hidden).
\* Textual composes a screen once, before it mounts it.
compose ==
    /\ raised = ""
    /\ ~grid.mounted
    /\ grid' = [mounted |-> TRUE, display |-> TRUE, children |-> <<>>]
    /\ empty_message' = [mounted |-> TRUE, display |-> FALSE]
    /\ last' = Event("compose")
    /\ UNCHANGED <<skill_cards, selected_index, focused, skills, effects, raised>>
    /\ UNCHANGED <<ctor, pressed, chat, shell, generator, rendered_card>>

\* The grid after _load_skills(sk).
load_skills_grid(sk) ==
    IF sk = <<>>
    THEN IF grid.mounted THEN [grid EXCEPT !.display = FALSE] ELSE grid
    ELSE IF grid.mounted
         THEN [grid EXCEPT !.children = [i \in 1..Len(sk) |-> sk[i].name]]
         ELSE grid

\* The empty-state message after _load_skills(sk).
load_skills_empty_message(sk) ==
    IF sk = <<>> /\ empty_message.mounted
    THEN [empty_message EXCEPT !.display = TRUE]
    ELSE empty_message

\* self._selected_index after _load_skills(sk).
load_skills_index_keep(sk) ==
    IF sk = <<>> THEN selected_index
    ELSE IF grid.mounted /\ CreateCards(sk) # <<>> /\ selected_index < 0 THEN 0
    ELSE selected_index

load_skills_index(sk) ==
    IF sk = <<>> THEN selected_index
    ELSE IF grid.mounted /\ CreateCards(sk) # <<>> THEN 0
    ELSE selected_index

\* self._skill_cards after _load_skills(sk).
load_skills_cards(sk) ==
    IF sk = <<>> THEN skill_cards
    ELSE IF grid.mounted
         THEN update_selection_cards(CreateCards(sk), load_skills_index(sk))
         ELSE skill_cards

\* The calls _load_skills makes before it looks at the result: the user skills
\* directory of self._agent from the settings, then list_skills with it and
\* with self._project_skills_dir.
load_skills_calls_cached ==
    IF skill_cards # <<>> THEN <<>>
    ELSE <<GetUserSkillsDirCall(agent),
           ListSkillsCall(UserSkillsDir(agent), project_skills_dir)>>

load_skills_calls ==
    <<GetUserSkillsDirCall(agent),
      ListSkillsCall(UserSkillsDir(agent), project_skills_dir)>>

\* on_mount -> _load_skills, with sk the catalog list_skills returns.  The
\* grid is there: on_mount follows compose, and a direct caller sets _grid first.
load_skills(sk) ==
    /\ raised = ""
    /\ grid.mounted
    /\ skills' = sk
    /\ grid' = load_skills_grid(sk)
    /\ empty_message' = load_skills_empty_message(sk)
    /\ selected_index' = load_skills_index(sk)
    /\ skill_cards' = load_skills_cards(sk)
    /\ focused' = IF sk # <<>> /\ grid.mounted
                  THEN update_selection_focus(CreateCards(sk), load_skills_index(sk), -1)
                  ELSE focused
    /\ last' = [Event("load") EXCEPT !.calls = load_skills_calls]
    /\ UNCHANGED <<effects, raised>>
    /\ UNCHANGED <<ctor, pressed, chat, shell, generator, rendered_card>>

\* The shared tail of the navigation handlers.
Navigate_selecting(op, skip, new_index) ==
    /\ raised = ""
    /\ CanPress
    /\ last' = Event(op)
    /\ pressed' = Recorded(op, IF skip THEN selected_index ELSE new_index)
    /\ IF skip
       THEN UNCHANGED <<selected_index, skill_cards, focused, effects>>
       ELSE /\ selected_index' = new_index
            /\ skill_cards' = update_selection_cards(skill_cards, new_index)
            /\ focused' = update_selection_focus(skill_cards, new_index, focused)
            /\ effects' = effects \o <<Dismiss(Some(get_skill_name(skill_cards[new_index + 1])))>>
    /\ UNCHANGED <<grid, empty_message, skills, raised>>
    /\ UNCHANGED <<ctor, chat, shell, generator, rendered_card>>

Navigate(op, skip, new_index) ==
    /\ raised = ""
    /\ CanPress
    /\ last' = Event(op)
    /\ pressed' = Recorded(op, IF skip THEN selected_index ELSE new_index)
    /\ IF skip
       THEN UNCHANGED <<selected_index, skill_cards, focused>>
       ELSE /\ selected_index' = new_index
            /\ skill_cards' = update_selection_cards(skill_cards, new_index)
            /\ focused' = update_selection_focus(skill_cards, new_index, focused)
    /\ UNCHANGED <<grid, empty_message, skills, effects, raised>>
    /\ UNCHANGED <<ctor, chat, shell, generator, rendered_card>>

action_navigate_up ==
    Navigate("up", NoSelection(skill_cards, selected_index),
             navigate_up_index(selected_index, Len(skill_cards)))

action_navigate_down ==
    Navigate("down", NoCards(skill_cards),
             navigate_down_index(selected_index, Len(skill_cards)))

action_navigate_left ==
    Navigate("left", NoSelection(skill_cards, selected_index),
             navigate_left_index(selected_index, Len(skill_cards)))

action_navigate_right ==
    Navigate("right", NoCards(skill_cards),
             navigate_right_index(selected_index, Len(skill_cards)))

\* self._skill_cards[self._selected_index] of action_select raises IndexError
\* past the end of the list (the early return has dealt with a negative index).
select_raises(cards, index) ==
    ~NoSelection(cards, index) /\ index >= Len(cards)

\* The calls action_select makes on cards and index: post_message with the
\* name of the card at index, then dismiss with the same name.
select_effects_first(cards, index) ==
    IF NoSelection(cards, index) \/ select_raises(cards, index) THEN <<>>
    ELSE <<SkillsSelected(get_skill_name(cards[1])),
           Dismiss(Some(get_skill_name(cards[1])))>>

select_effects_dismiss_only(cards, index) ==
    IF NoSelection(cards, index) \/ select_raises(cards, index) THEN <<>>
    ELSE <<Dismiss(Some(get_skill_name(cards[index + 1])))>>

select_effects_dismiss_none(cards, index) ==
    IF NoSelection(cards, index) \/ select_raises(cards, index) THEN <<>>
    ELSE <<SkillsSelected(get_skill_name(cards[index + 1])), Dismiss(None)>>

select_effects(cards, index) ==
    IF NoSelection(cards, index) \/ select_raises(cards, index) THEN <<>>
    ELSE <<SkillsSelected(get_skill_name(cards[index + 1])),
           Dismiss(Some(get_skill_name(cards[index + 1])))>>

\* Events that would post once more are not delivered past MaxPosted messages.
CanPost(new_effects) ==
    Len(SelectSeq(effects \o new_effects, IsPost)) <= MaxPosted

Select(cards, index) ==
    /\ CanPost(select_effects(cards, index))
    /\ effects' = effects \o select_effects(cards, index)
    /\ raised' = IF select_raises(cards, index) THEN "IndexError" ELSE raised

action_select ==
    /\ raised = ""
    /\ Select(skill_cards, selected_index)
    /\ last' = Event("select")
    /\ UNCHANGED <<grid, empty_message, skill_cards, selected_index, focused, skills>>
    /\ UNCHANGED <<ctor, pressed, chat, shell, generator, rendered_card>>

\* The calls action_cancel makes: post_message, then dismiss(None).
cancel_effects_guarded ==
    IF NoSelection(skill_cards, selected_index) THEN <<>>
    ELSE <<SkillsCancelled, Dismiss(None)>>

cancel_effects == <<SkillsCancelled, Dismiss(None)>>

action_cancel_clears ==
    /\ raised = ""
    /\ CanPost(cancel_effects)
    /\ effects' = effects \o cancel_effects
    /\ last' = Event("cancel")
    /\ skill_cards' = <<>>
    /\ selected_index' = -1
    /\ UNCHANGED <<grid, empty_message, focused, skills, raised>>
    /\ UNCHANGED <<ctor, pressed, chat, shell, generator, rendered_card>>

action_cancel ==
    /\ raised = ""
    /\ CanPost(cancel_effects)
    /\ effects' = effects \o cancel_effects
    /\ last' = Event("cancel")
    /\ UNCHANGED <<grid, empty_message, skill_cards, selected_index, focused, skills, raised>>
    /\ UNCHANGED <<ctor, pressed, chat, shell, generator, rendered_card>>

\* The widgets a click can land on: a card of the grid while the grid is
\* displayed, or a widget that is no card.
ClickTargets ==
    {OtherWidget} \cup
    (IF grid.mounted /\ grid.display THEN 0..(Len(grid.children) - 1) ELSE {})

\* The loop of on_click: the position in self._skill_cards of the clicked
\* widget, or OtherWidget when the loop finds none.  The grid's children are
\* the objects of self._skill_cards, in the same order.
clicked_index_nearest(cards, widget) ==
    IF widget # OtherWidget /\ widget < Len(cards) THEN widget
    ELSE IF cards # <<>> THEN 0 ELSE OtherWidget

clicked_index(cards, widget) ==
    IF widget # OtherWidget /\ widget < Len(cards) THEN widget ELSE OtherWidget

on_click_keeps_index(widget) ==
    /\ raised = ""
    /\ last' = [Event("click") EXCEPT !.op = IF widget = OtherWidget THEN "click_other" ELSE "click"]
    /\ LET i == clicked_index(skill_cards, widget)
       IN  IF i = OtherWidget
           THEN UNCHANGED <<skill_cards, selected_index, focused, effects, raised>>
           ELSE /\ UNCHANGED <<skill_cards, selected_index, focused>>
                /\ Select(skill_cards, selected_index)
    /\ UNCHANGED <<grid, empty_message, skills>>
    /\ UNCHANGED <<ctor, pressed, chat, shell, generator, rendered_card>>

on_click(widget) ==
    /\ raised = ""
    /\ last' = [Event("click") EXCEPT !.op = IF widget = OtherWidget THEN "click_other" ELSE "click"]
    /\ LET i == clicked_index(skill_cards, widget)
       IN  IF i = OtherWidget
           THEN UNCHANGED <<skill_cards, selected_index, focused, effects, raised>>
           ELSE /\ selected_index' = i
                /\ skill_cards' = update_selection_cards(skill_cards, i)
                /\ focused' = update_selection_focus(skill_cards, i, focused)
                /\ Select(skill_cards', i)
    /\ UNCHANGED <<grid, empty_message, skills>>
    /\ UNCHANGED <<ctor, pressed, chat, shell, generator, rendered_card>>

Next ==
    \/ compose
    \/ \E sk \in Catalogs : load_skills(sk)
    \/ action_navigate_up
    \/ action_navigate_down
    \/ action_navigate_left
    \/ action_navigate_right
    \/ action_select
    \/ action_cancel
    \/ \E w \in ClickTargets : on_click(w)

Spec == Init /\ [][Next]_vars

\* ------------------------------------------------------------- malformed records
\* A record that lacks the "name" key: skill["name"] raises KeyError on it.
Malformed == [source |-> "user"]
HasName(skill) == "name" \in DOMAIN skill

\* Catalogs that hold at least one malformed record.
MalformedCatalogs ==
    {sk \in SeqUpTo([name : Names] \cup {Malformed}, MaxSkills) :
        \E i \in 1..Len(sk) : ~HasName(sk[i])}

\* The position of the record at which the loop of _load_skills raises.
FirstMalformed(sk) ==
    CHOOSE k \in 1..Len(sk) : ~HasName(sk[k]) /\ \A j \in 1..(k - 1) : HasName(sk[j])

\* _load_skills on a catalog with a malformed record: the grid is emptied,
\* the records before the malformed one become cards and children of the
\* grid, then skill["name"] raises KeyError; the index reset and
\* _update_selection are not reached.
load_skills_raising(sk) ==
    /\ raised = ""
    /\ grid.mounted
    /\ skills' = sk
    /\ LET done == SubSeq(sk, 1, FirstMalformed(sk) - 1)
       IN  /\ skill_cards' = CreateCards(done)
           /\ grid' = [grid EXCEPT !.children = [i \in 1..Len(done) |-> done[i].name]]
    /\ raised' = "KeyError"
    /\ last' = [Event("load") EXCEPT !.calls = load_skills_calls]
    /\ UNCHANGED <<empty_message, selected_index, focused, effects>>
    /\ UNCHANGED <<ctor, pressed, chat, shell, generator, rendered_card>>

NextMalformed ==
    \/ Next
    \/ \E sk \in MalformedCatalogs : load_skills_raising(sk)

SpecMalformed == Init /\ [][NextMalformed]_vars

\* ------------------------------------------------------------- loading alone
\* A modal constructed with any agent and project directory, loaded and
\* reloaded and navigated, before it is resolved.
InitLoad ==
    /\ \E a \in Agents : \E p \in ProjectDirs : Constructed(a, p)
    /\ ChatInputConstructed(None)
    /\ ModalPushed
    /\ TitleGeneratorConstructed(<<>>, Returns(<<>>))
    /\ SkillCardConstructed(<<>>)

NextLoad ==
    \/ compose
    \/ \E sk \in Catalogs : load_skills(sk)
    \/ action_navigate_up
    \/ action_navigate_down
    \/ action_navigate_left
    \/ action_navigate_right

SpecLoad == InitLoad /\ [][NextLoad]_vars

\* ------------------------------------------------------------- navigation alone
\* The modal with a catalog of n skills loaded and card index highlighted:
\* what _load_skills and index presses of Right leave behind.
Loaded(n, index) ==
    LET sk == [i \in 1..n |-> [name |-> "x"]]
    IN  /\ grid = [mounted |-> TRUE, display |-> TRUE, children |-> [i \in 1..n |-> "x"]]
        /\ empty_message = [mounted |-> TRUE, display |-> FALSE]
        /\ skill_cards = update_selection_cards(CreateCards(sk), index)
        /\ selected_index = index
        /\ focused = index
        /\ skills = sk
        /\ effects = <<>>
        /\ raised = ""
        /\ last = [op |-> "init", from_index |-> -1, calls |-> <<>>]
        /\ agent = "agent"
        /\ project_skills_dir = None
        /\ ChatInputConstructed(None)
        /\ ModalPushed
        /\ TitleGeneratorConstructed(<<>>, Returns(<<>>))
        /\ SkillCardConstructed(<<>>)

InitNav ==
    \E n \in 1..MaxCount : \E index \in 0..(n - 1) :
        Loaded(n, index) /\ pressed = <<>>

NextNav ==
    \/ action_navigate_up
    \/ action_navigate_down
    \/ action_navigate_left
    \/ action_navigate_right

SpecNav == InitNav /\ [][NextNav]_vars

\* ------------------------------------------------------------- Left and Right alone
\* A loaded modal on which only Left and Right are pressed, the presses
\* recorded from the index they start on.
InitKeys ==
    \E n \in 1..MaxCount : \E index \in 0..(n - 1) :
        Loaded(n, index) /\ pressed = <<[op |-> "start", index |-> index]>>

NextKeys ==
    \/ action_navigate_left
    \/ action_navigate_right

SpecKeys == InitKeys /\ [][NextKeys]_vars

\* ------------------------------------------------------------- chat input
\* The user edits the line in the input buffer.
chat_text_changed(text) ==
    /\ chat_text' = text
    /\ UNCHANGED <<chat_agent, chat_posted>>
    /\ UNCHANGED <<modal, shell, generator, rendered_card>>

\* ChatInput.on_chat_text_area_submitted: the trigger command posts one
\* ShowSkillsModal with the configured agent; the buffer is cleared.
on_chat_text_area_submitted ==
    /\ chat_text # ""
    /\ Len(chat_posted) < MaxChatPosted
    /\ chat_posted' = Append(chat_posted,
                             IF IsSkillsCommand(chat_text)
                             THEN ShowSkillsModal(chat_agent)
                             ELSE ChatSubmitted)
    /\ chat_text' = ""
    /\ UNCHANGED chat_agent
    /\ UNCHANGED <<modal, shell, generator, rendered_card>>

\* A chat input with any configured agent, before the modal is opened.
InitChat ==
    /\ Constructed("agent", None)
    /\ \E a \in ChatAgents : ChatInputConstructed(a)
    /\ ModalPushed
    /\ TitleGeneratorConstructed(<<>>, Returns(<<>>))
    /\ SkillCardConstructed(<<>>)

NextChat ==
    \/ \E text \in ChatTexts : chat_text_changed(text)
    \/ on_chat_text_area_submitted

SpecChat == InitChat /\ [][NextChat]_vars

\* ------------------------------------------------------------- application shell
\* The follow-up command for a chosen skill.
use_skill_command(skill_name) == "/use-skill " \o skill_name

\* DeepAgentsApp._on_skill_selected(skill_name): the callback the shell gave
\* when it pushed the modal, called once with the result of the modal's first
\* dismiss.  A name puts the follow-up command into the chat input; None
\* leaves the chat input as it is.
on_skill_selected ==
    /\ shell_awaiting
    /\ dismissed # <<>>
    /\ LET skill_name == dismissed[1].skill_name
       IN  chat_text' = IF skill_name = None
                        THEN chat_text
                        ELSE chat_text \o use_skill_command(skill_name[1])
    /\ shell_awaiting' = FALSE
    /\ UNCHANGED <<chat_agent, chat_posted>>
    /\ UNCHANGED <<modal, generator, rendered_card>>

\* The modal, opened by the shell after the trigger command has cleared the
\* chat input, and the shell's callback.  The shell's screen stack delivers
\* events to the modal until its first dismiss, which pops it.
NextShell ==
    \/ dismissed = <<>> /\ Next
    \/ on_skill_selected

SpecShell == Init /\ [][NextShell]_vars

\* ------------------------------------------------------------- title generator
\* Text is a sequence of characters.  The characters str.strip() removes (of
\* which the model has two), and the ones strip('"\'') removes.
Whitespace == {" ", "\n"}
Quotes == {"\"", "'"}
Ellipsis == <<".", ".", ".">>

\* text[:n]
Prefix(text, n) == SubSeq(text, 1, IF n < Len(text) THEN n ELSE Len(text))

\* str.lstrip(chars), str.rstrip(chars), str.strip(chars)
RECURSIVE lstrip(_, _)
lstrip(text, chars) ==
    IF text # <<>> /\ Head(text) \in chars THEN lstrip(Tail(text), chars) ELSE text

RECURSIVE rstrip(_, _)
rstrip(text, chars) ==
    IF text # <<>> /\ text[Len(text)] \in chars
    THEN rstrip(SubSeq(text, 1, Len(text) - 1), chars)
    ELSE text

strip(text, chars) == rstrip(lstrip(text, chars), chars)

\* TitleGenerator._clean_title: raw.strip().strip('"\'').strip()
clean_title(raw) == strip(strip(strip(raw, Whitespace), Quotes), Whitespace)

\* generate_title: the length limits of the message part of the prompt and of
\* the title.
MessageLimit == 200
TitleLimit == 30
TitleKept == 27

\* generate_title: the message part of the prompt.
content_whole(message) == message

content(message) ==
    IF Len(message) > MessageLimit THEN Prefix(message, MessageLimit) ELSE message

\* generate_title: "Validate length".
validate_length_keep_limit(text) ==
    IF Len(text) > TitleLimit THEN Prefix(text, TitleLimit) \o Ellipsis ELSE text

validate_length(text) ==
    IF Len(text) > TitleLimit THEN Prefix(text, TitleKept) \o Ellipsis ELSE text

\* generate_title: the value returned for the title after validation, and for
\* an exception raised inside the try block.
return_title_unchecked(text) == Some(text)

return_title(text) == IF text # <<>> THEN Some(text) ELSE None

\* generate_title: `except Exception: return None`.
caught_reraised == [pc |-> "raised", result |-> None]

caught == [pc |-> "returned", result |-> None]

\* generate_title(first_message) with a model that responds with response:
\* the prompt is built and passed to one ainvoke call; a response is cleaned,
\* cut to the limit and returned, None in place of the empty title; an
\* Exception is caught and None is returned.
generate_title ==
    /\ ainvoke_calls' = <<content(first_message)>>
    /\ IF response.raises
       THEN /\ title' = <<>>
            /\ result' = caught.result
            /\ pc' = caught.pc
       ELSE /\ title' = clean_title(response.content)
            /\ result' = return_title(validate_length(title'))
            /\ pc' = "returned"
    /\ UNCHANGED <<first_message, response>>
    /\ UNCHANGED <<modal, chat, shell, rendered_card>>

\* Model outputs: a text between two runs of whitespace and quote characters.
\* The text itself has blanks and quotes inside.
PadChars == {" ", "\"", "'"}
Pads == SeqUpTo(PadChars, MaxPad)
FewPads == {<<>>, <<" ">>, <<"\"">>, <<"\n">>}
BodyChars == <<"a", "b", " ", "c", "'", "d">>
Body(n) == [i \in 1..n |-> BodyChars[((i - 1) % Len(BodyChars)) + 1]]
ShortBodies == {Body(0), Body(1), Body(2)}
PaddedOutputs == {l \o b \o t : l \in Pads, b \in ShortBodies, t \in Pads}
LongOutputs == {l \o Body(n) \o t : l \in FewPads, n \in 0..MaxTitleLen, t \in FewPads}

\* First messages of every length up to the bound.
MessageChars == <<"h", "e", "y", " ">>
Message(n) == [i \in 1..n |-> MessageChars[((i - 1) % Len(MessageChars)) + 1]]
Messages == {Message(n) : n \in 0..MaxMessageLen}

\* The calls of generate_title in the model: a short message with every
\* model output, and every message with a title, a blank output and a failure.
TitleInputs ==
    ({Message(3)} \X {Returns(r) : r \in PaddedOutputs \cup LongOutputs})
    \cup (Messages \X {Returns(<<"a", "b">>), Returns(<<" ">>), Raises})

InitTitle ==
    /\ Constructed("agent", None)
    /\ ChatInputConstructed(None)
    /\ ModalPushed
    /\ SkillCardConstructed(<<>>)
    /\ \E in \in TitleInputs : TitleGeneratorConstructed(in[1], in[2])

NextTitle == generate_title

SpecTitle == InitTitle /\ [][NextTitle]_vars

\* ------------------------------------------------------------- skill card
\* SkillCard._truncate_description: the default of max_length.
DescriptionLimit == 40

\* SkillCard._truncate_description(text, max_length)
truncate_description_whole_limit(text, max_length) ==
    IF Len(text) <= max_length THEN text
    ELSE Prefix(text, max_length) \o Ellipsis

truncate_description(text, max_length) ==
    IF Len(text) <= max_length THEN text
    ELSE Prefix(text, max_length - 3) \o Ellipsis

\* SkillCard.render: the name, the source label, then the description,
\* truncated with the default limit.
render ==
    /\ truncated_desc' = Some(truncate_description(description, DescriptionLimit))
    /\ UNCHANGED description
    /\ UNCHANGED <<modal, chat, shell, generator>>

\* Descriptions of every length up to the bound, in three wordings.
DescriptionChars == <<"s", "k", "i", "l", "l", " ", ".">>
Describe(k, n) ==
    [i \in 1..n |-> DescriptionChars[((i + k) % Len(DescriptionChars)) + 1]]
Descriptions == {Describe(k, n) : k \in 1..3, n \in 0..MaxDescriptionLen}

InitCard ==
    /\ Constructed("agent", None)
    /\ ChatInputConstructed(None)
    /\ ModalPushed
    /\ TitleGeneratorConstructed(<<>>, Returns(<<>>))
    /\ \E d \in Descriptions : SkillCardConstructed(d)

NextCard == render

SpecCard == InitCard /\ [][NextCard]_vars

\* ------------------------------------------------------------- properties
NavOps == {"up", "down", "left", "right"}

NavStep ==
    \/ action_navigate_up
    \/ action_navigate_down
    \/ action_navigate_left
    \/ action_navigate_right

\* The modal's Active state: there are cards and a current index.
Active == skill_cards # <<>> /\ selected_index >= 0

\* The names of the cards, and of a catalog's records, in order.
CardNames(cards) == [i \in 1..Len(cards) |-> cards[i].name]
RecordNames(sk) == [i \in 1..Len(sk) |-> sk[i].name]

\* C1: in every reachable state selected_index is -1 exactly when the card
\* list is empty, and otherwise it is a valid position of the card list.
C1_IndexInRange ==
    /\ (selected_index = -1) <=> (skill_cards = <<>>)
    /\ skill_cards # <<>> => (0 <= selected_index /\ selected_index < Len(skill_cards))

\* C1 witness: Up has wrapped from the first card to the last of several cards.
C1_Witness ==
    /\ last.op = "up"
    /\ last.from_index = 0
    /\ Len(skill_cards) >= 2
    /\ selected_index = Len(skill_cards) - 1

\* C2: a navigation step taken with at least one card and a valid index
\* raises nothing and ends on a valid index of the same card list.
C2_NavigationTotal ==
    [][(/\ NavStep
        /\ Len(skill_cards) >= 1
        /\ 0 <= selected_index /\ selected_index < Len(skill_cards))
       => (/\ raised' = ""
           /\ Len(skill_cards') = Len(skill_cards)
           /\ 0 <= selected_index' /\ selected_index' < Len(skill_cards'))]_vars

\* C2 witness: Down has moved off a valid index of a list of several cards.
C2_Witness ==
    /\ last.op = "down"
    /\ last.from_index >= 1
    /\ Len(skill_cards) >= 2
    /\ selected_index = 0
    /\ raised = ""

\* C3: over a modal's lifetime at most one SkillsSelected or SkillsCancelled
\* notification is posted.
C3_AtMostOneResolution == Len(posted) <= 1

\* C4: while the latest loaded catalog is empty, a navigation or Select event
\* leaves selected_index at -1, posts nothing, dismisses nothing and raises
\* nothing.
C4_EmptyCatalogInert ==
    [][(/\ NavStep \/ action_select
        /\ grid.mounted
        /\ skills = <<>>)
       => (/\ selected_index' = -1
           /\ effects' = effects
           /\ raised' = "")]_vars

\* C5: right after a load of a non-empty catalog selected_index is 0.
C5_LoadResetsSelection ==
    (last.op = "load" /\ skills # <<>>) => selected_index = 0

\* C5 witness: a non-empty load that started from another index than 0.
C5_Witness ==
    /\ last.op = "load"
    /\ skills # <<>>
    /\ last.from_index > 0
    /\ selected_index = 0

\* C6: right after any load, the cards, the grid's children and
\* selected_index are those of the loaded catalog alone: one card per record,
\* index 0, or no card and index -1 for an empty catalog.
C6_LoadReplacesState ==
    last.op = "load" =>
        /\ CardNames(skill_cards) = RecordNames(skills)
        /\ grid.children = RecordNames(skills)
        /\ selected_index = (IF skills = <<>> THEN -1 ELSE 0)

\* C7: Select in Active state makes exactly two calls: it posts SkillsSelected
\* with the name of the card at selected_index, then dismisses with that name.
C7_SelectPostsCurrent ==
    [][(action_select /\ Active)
       => LET name == skill_cards[selected_index + 1].name
          IN  effects' = effects \o <<SkillsSelected(name), Dismiss(Some(name))>>]_vars

\* C7 witness: Select has resolved the modal from a card other than the first.
C7_Witness ==
    /\ last.op = "select"
    /\ last.from_index >= 1
    /\ Len(effects) = 2
    /\ effects[1].kind = "SkillsSelected"
    /\ effects[2] = Dismiss(Some(skill_cards[selected_index + 1].name))

\* C8: Cancel can be taken in every state in which the modal has not been
\* dismissed, and it makes exactly two calls: it posts SkillsCancelled, then
\* dismisses with None.
C8_CancelAlwaysResolves ==
    /\ [](dismissed = <<>> => ENABLED action_cancel)
    /\ [][action_cancel => effects' = effects \o <<SkillsCancelled, Dismiss(None)>>]_vars

\* C8 witness: Cancel has resolved a freshly constructed modal, never loaded.
C8_Witness ==
    /\ last.op = "cancel"
    /\ ~grid.mounted
    /\ skill_cards = <<>>
    /\ effects = <<SkillsCancelled, Dismiss(None)>>

\* A notification and the dismissal that matches it.
Matches(post, dism) ==
    /\ IsPost(post)
    /\ IsDismiss(dism)
    /\ \/ post.kind = "SkillsCancelled" /\ dism.skill_name = None
       \/ /\ post.kind = "SkillsSelected"
          /\ dism.skill_name = post.skill_name
          /\ \E n \in Names : dism.skill_name = Some(n)

\* C9: the calls made so far are pairs of one notification followed by the
\* dismissal that matches it, and every handler adds no call or one such pair.
C9_ExactlyOneOutcome ==
    /\ [](/\ Len(effects) % 2 = 0
          /\ \A k \in 1..Len(effects) :
                k % 2 = 1 => Matches(effects[k], effects[k + 1]))
    /\ [][\/ effects' = effects
          \/ /\ Len(effects') = Len(effects) + 2
             /\ SubSeq(effects', 1, Len(effects)) = effects]_vars

\* C9 witness: the modal has been dismissed with a skill name.
C9_Witness ==
    /\ last.op = "select"
    /\ Len(effects) = 2
    /\ effects[2].skill_name # None

\* C10: while there are cards, exactly the card at selected_index carries
\* the "selected" class.
C10_OneSelectedMark ==
    skill_cards # <<>> =>
        \A i \in 1..Len(skill_cards) :
            skill_cards[i].selected <=> (i - 1 = selected_index)

\* C10 witness: navigation has moved the mark to another card.
C10_Witness ==
    /\ last.op \in NavOps
    /\ Len(skill_cards) >= 2
    /\ last.from_index # selected_index
    /\ skill_cards[selected_index + 1].selected
    /\ ~skill_cards[last.from_index + 1].selected

\* C11: a click on the displayed card at position w, from any current index,
\* sets selected_index to w, posts SkillsSelected with the name of card w and
\* then dismisses with that name.
C11_ClickSelectsClicked ==
    [][\A w \in ClickTargets :
          (w # OtherWidget /\ on_click(w))
          => LET name == skill_cards[w + 1].name
             IN  /\ selected_index' = w
                 /\ effects' = effects \o <<SkillsSelected(name), Dismiss(Some(name))>>]_vars

\* C11 witness: a click has resolved the modal with the clicked card's name,
\* which is not the name of the card that was highlighted before.
C11_Witness ==
    /\ last.op = "click"
    /\ last.from_index >= 0
    /\ last.from_index # selected_index
    /\ skill_cards[last.from_index + 1].name # skill_cards[selected_index + 1].name
    /\ Len(effects) = 2
    /\ effects[1] = SkillsSelected(skill_cards[selected_index + 1].name)
    /\ effects[2] = Dismiss(Some(skill_cards[selected_index + 1].name))

\* The number of cards; the navigation handlers leave it as it is.
Count == Len(skill_cards)

\* C12: Down from the last index ends on an index below 2, and Up from an
\* index below 2 ends on the last index, for every number of cards >= 1.
C12_WrapAround ==
    /\ (last.op = "down" /\ Count >= 1 /\ last.from_index = Count - 1)
       => (0 <= selected_index /\ selected_index < 2)
    /\ (last.op = "up" /\ Count >= 1 /\ 0 <= last.from_index /\ last.from_index < 2)
       => selected_index = Count - 1

\* C12 witness: Up has wrapped from the second card to the last of six.
C12_Witness ==
    /\ last.op = "up"
    /\ last.from_index = 1
    /\ Count = 6
    /\ selected_index = 5

\* C13: Down ends on current + 2 when that is a position of the list, and on
\* 0 otherwise.
C13_DownStep ==
    (last.op = "down" /\ Count >= 1 /\ 0 <= last.from_index /\ last.from_index < Count)
    => selected_index = (IF last.from_index + 2 < Count THEN last.from_index + 2 ELSE 0)

\* C13 witness: with 4 cards, Down from 0 has given 2.
C13_Witness ==
    /\ last.op = "down"
    /\ Count = 4
    /\ last.from_index = 0
    /\ selected_index = 2

\* C14: Up ends on current - 2 when that is not negative, and on the last
\* index otherwise.
C14_UpStep ==
    (last.op = "up" /\ Count >= 1 /\ 0 <= last.from_index /\ last.from_index < Count)
    => selected_index = (IF last.from_index - 2 >= 0 THEN last.from_index - 2 ELSE Count - 1)

\* C14 witness: with 4 cards, Up from 2 has given 0.
C14_Witness ==
    /\ last.op = "up"
    /\ Count = 4
    /\ last.from_index = 2
    /\ selected_index = 0

\* C15: Right ends on (current + 1) mod count and Left on (current - 1) mod
\* count.
C15_UnitSteps ==
    (Count >= 1 /\ 0 <= last.from_index /\ last.from_index < Count)
    => /\ last.op = "right" => selected_index = (last.from_index + 1) % Count
       /\ last.op = "left" => selected_index = (last.from_index - 1) % Count

\* C15 witness: Right has wrapped from the last of four cards to the first.
C15_Witness ==
    /\ last.op = "right"
    /\ Count = 4
    /\ last.from_index = 3
    /\ selected_index = 0

\* C16: right after a load of an empty catalog the empty-state message is
\* displayed and the grid is hidden, and while the latest catalog is empty and
\* the message is displayed, the only step that dismisses the modal is Cancel.
C16_EmptyStateOnlyCancel ==
    /\ []((last.op = "load" /\ skills = <<>>)
          => (empty_message.display /\ ~grid.display))
    /\ [][(skills = <<>> /\ empty_message.display /\ effects' # effects)
          => effects' = effects \o <<SkillsCancelled, Dismiss(None)>>]_vars

\* C17: a load of a catalog that holds a malformed record raises nothing and
\* leaves one card per well-formed record, in order.
C17_MalformedSkipped ==
    (last.op = "load" /\ \E i \in 1..Len(skills) : ~HasName(skills[i]))
    => /\ raised = ""
       /\ CardNames(skill_cards) = RecordNames(SelectSeq(skills, HasName))

\* C18: right after a load of a non-empty catalog there is exactly one card
\* per record, card i carrying the name of record i.
C18_CardsFollowCatalog ==
    (last.op = "load" /\ skills # <<>>)
    => /\ Len(skill_cards) = Len(skills)
       /\ \A i \in 1..Len(skills) : skill_cards[i].name = skills[i].name

\* C18 witness: a catalog of three records, not all of one name, has been
\* loaded over an earlier card list.
C18_Witness ==
    /\ last.op = "load"
    /\ last.from_index >= 0
    /\ Len(skills) = 3
    /\ skills[1].name # skills[3].name
    /\ Len(skill_cards) = 3

\* C19: every load makes exactly two outside calls, in this order: the
\* settings are asked for the user skills directory of the modal's agent, and
\* list_skills is called once, with that directory and with the project
\* skills directory given at construction; a later load makes them again.
C19_LoadReadsAfresh ==
    last.op = "load" =>
        /\ Len(last.calls) = 2
        /\ last.calls[1].fn = "get_user_skills_dir"
        /\ last.calls[1].args = <<Some(agent)>>
        /\ last.calls[2].fn = "list_skills"
        /\ last.calls[2].args = <<UserSkillsDir(agent), project_skills_dir>>

\* C19 witness: a modal constructed for another agent than the default, with
\* a project directory, has been loaded again over a non-empty card list.
C19_Witness ==
    /\ last.op = "load"
    /\ last.from_index >= 0
    /\ agent = "test-agent"
    /\ project_skills_dir # None
    /\ Len(last.calls) = 2

\* The ShowSkillsModal messages among the chat input's messages.
IsShowSkillsModal(m) == m.kind = "ShowSkillsModal"
ShowRequests(msgs) == SelectSeq(msgs, IsShowSkillsModal)

\* C20: submitting "/skills" posts exactly one message, a ShowSkillsModal
\* that carries the configured agent identifier, or "agent" when none is
\* configured, and leaves the input buffer empty.
C20_SkillsCommandShowsModal ==
    [][(on_chat_text_area_submitted /\ chat_text = "/skills")
       => /\ Len(chat_posted') = Len(chat_posted) + 1
          /\ SubSeq(chat_posted', 1, Len(chat_posted)) = chat_posted
          /\ Len(ShowRequests(chat_posted')) = Len(ShowRequests(chat_posted)) + 1
          /\ chat_posted'[Len(chat_posted')].kind = "ShowSkillsModal"
          /\ chat_posted'[Len(chat_posted')].agent =
                (IF chat_agent = None THEN "agent" ELSE chat_agent[1])
          /\ chat_text' = ""]_vars

\* C20 witness: "/skills" was submitted in a chat input configured with
\* "test-agent": one request for that agent, the buffer empty.
C20_Witness ==
    /\ chat_agent = Some("test-agent")
    /\ chat_posted = <<[kind |-> "ShowSkillsModal", agent |-> "test-agent"]>>
    /\ chat_text = ""

\* C21: the shell's callback, called with the modal's result, puts exactly
\* "/use-skill <name>" into the chat input when the modal was resolved with
\* SkillsSelected(name), and leaves the chat input as it is when the modal was
\* resolved with SkillsCancelled; it posts nothing and makes no call on the modal.
C21_ShellFollowUp ==
    [][on_skill_selected
       => /\ posted[1].kind = "SkillsSelected"
             => chat_text' = "/use-skill " \o posted[1].skill_name[1]
          /\ posted[1].kind = "SkillsCancelled" => chat_text' = chat_text
          /\ UNCHANGED <<chat_posted, effects>>]_vars

\* C21 witness: the modal was resolved with SkillsSelected("y") from a card
\* other than the first and the chat input holds "/use-skill y".
C21_Witness ==
    /\ ~shell_awaiting
    /\ posted[1] = SkillsSelected("y")
    /\ selected_index >= 1
    /\ chat_text = "/use-skill y"

\* C22: a returned title is the cleaned title itself when that has at most
\* 30 characters, and otherwise its first 27 characters followed by "...",
\* 30 characters in all; no returned title is longer than 30 characters.
C22_TitleLengthBound ==
    (pc = "returned" /\ result # None)
    => /\ Len(title) <= 30 => result[1] = title
       /\ Len(title) > 30
          => /\ result[1] = SubSeq(title, 1, 27) \o <<".", ".", ".">>
             /\ Len(result[1]) = 30
       /\ Len(result[1]) <= 30

\* C22 witness: a cleaned title of 31 characters was returned cut.
C22_Witness ==
    /\ pc = "returned"
    /\ Len(title) = 31
    /\ result # None
    /\ Len(result[1]) = 30
    /\ result[1][27] = title[27]
    /\ result[1][28] = "."

\* C23: for every model output the cleaned title is the output without the
\* whitespace and quote characters around it: it neither begins nor ends with
\* a whitespace or a quote character.
C23_CleanStripsAll ==
    (pc = "returned" /\ ~response.raises /\ title # <<>>)
    => /\ title[1] \notin (Whitespace \cup Quotes)
       /\ title[Len(title)] \notin (Whitespace \cup Quotes)

\* C24: generate_title always returns and never raises; it returns None when
\* the model call raised and when the cleaned title is empty, and a non-empty
\* text otherwise.
C24_TitleBestEffort ==
    /\ pc # "raised"
    /\ pc = "returned"
       => /\ response.raises => result = None
          /\ (~response.raises /\ title = <<>>) => result = None
          /\ (~response.raises /\ title # <<>>) => (result # None /\ result[1] # <<>>)
          /\ result # Some(<<>>)

\* C24 witness: the model call raised, after one call, and None was returned.
C24_Witness ==
    /\ pc = "returned"
    /\ response.raises
    /\ Len(ainvoke_calls) = 1
    /\ result = None

\* C25: one call of generate_title makes exactly one model call, and the
\* message part of its prompt is the first message when that has at most 200
\* characters and its first 200 characters otherwise: never more than 200.
C25_OneCallBoundedPrompt ==
    pc = "returned"
    => /\ Len(ainvoke_calls) = 1
       /\ Len(first_message) <= 200 => ainvoke_calls[1] = first_message
       /\ Len(first_message) > 200 => ainvoke_calls[1] = SubSeq(first_message, 1, 200)
       /\ Len(ainvoke_calls[1]) <= 200

\* C25 witness: a first message of 201 characters went into the prompt
\* without its last character.
C25_Witness ==
    /\ pc = "returned"
    /\ Len(first_message) = 201
    /\ Len(ainvoke_calls) = 1
    /\ Len(ainvoke_calls[1]) = 200
    /\ ainvoke_calls[1][200] = first_message[200]

\* C26: a rendered card shows a description of at most 40 characters as it
\* is, and a longer one as its first 37 characters followed by "...", 40
\* characters in all; what it shows is never longer than 40 characters.
C26_DescriptionTruncation ==
    truncated_desc # None
    => /\ Len(description) <= 40 => truncated_desc[1] = description
       /\ Len(description) > 40
          => /\ truncated_desc[1] = SubSeq(description, 1, 37) \o <<".", ".", ".">>
             /\ Len(truncated_desc[1]) = 40
       /\ Len(truncated_desc[1]) <= 40

\* C26 witness: a description of 41 characters is shown cut to 40.
C26_Witness ==
    /\ truncated_desc # None
    /\ Len(description) = 41
    /\ Len(truncated_desc[1]) = 40
    /\ truncated_desc[1][37] = description[37]
    /\ truncated_desc[1][38] = "."

\* C27: Select and Cancel leave selected_index and the card list as they
\* were, with and without cards; a step that changes either of them is a
\* load, a navigation or a click.
C27_SelectCancelFrame ==
    [][/\ (action_select \/ action_cancel)
          => (selected_index' = selected_index /\ skill_cards' = skill_cards)
       /\ (selected_index' # selected_index \/ skill_cards' # skill_cards)
          => last'.op \in ({"load", "click"} \cup NavOps)]_vars

\* C27 witness: Cancel has resolved the modal while a card other than the
\* first was highlighted, and the card is still highlighted.
C27_Witness ==
    /\ last.op = "cancel"
    /\ last.from_index >= 1
    /\ selected_index = last.from_index
    /\ Len(skill_cards) >= 2
    /\ skill_cards[selected_index + 1].selected
    /\ dismissed = <<Dismiss(None)>>

\* C28: every SkillsSelected notification names a record of the catalog the
\* latest load returned, also when that catalog differs from the one before
\* or is empty.
C28_SelectedFromLatestCatalog ==
    [][\A k \in (Len(effects) + 1)..Len(effects') :
          effects'[k].kind = "SkillsSelected"
          => \E i \in 1..Len(skills') : Some(skills'[i].name) = effects'[k].skill_name]_vars

\* C29: right after any load the empty-state message is displayed exactly
\* when the loaded catalog is empty and the grid exactly when it is not, also
\* when a non-empty load follows an empty one.
C29_DisplayFollowsCatalog ==
    last.op = "load"
    => /\ empty_message.display <=> (skills = <<>>)
       /\ grid.display <=> (skills # <<>>)

\* C30: a navigation step posts nothing, dismisses nothing and raises
\* nothing, and leaves the grid, the empty-state message and the names of the
\* cards, in their order, as they were.
C30_NavigationFrame ==
    [][NavStep
       => /\ effects' = effects
          /\ raised' = raised
          /\ CardNames(skill_cards') = CardNames(skill_cards)
          /\ UNCHANGED <<grid, empty_message, skills>>]_vars

\* C30 witness: navigation has moved the highlight among three cards, not
\* all of one name, and nothing was posted and the modal not dismissed.
C30_Witness ==
    /\ last.op \in NavOps
    /\ last.from_index # selected_index
    /\ CardNames(skill_cards) = <<"x", "y", "x">>
    /\ grid.children = <<"x", "y", "x">>
    /\ effects = <<>>

\* C31: with at least one card and from every valid index, Right followed by
\* Left, and Left followed by Right, ends on the index it started from.
C31_LeftRightInverse ==
    \A k \in 2..(Len(pressed) - 1) :
        (\/ pressed[k].op = "right" /\ pressed[k + 1].op = "left"
         \/ pressed[k].op = "left" /\ pressed[k + 1].op = "right")
        => pressed[k + 1].index = pressed[k - 1].index

\* C31 witness: with four cards, Right from the last card has wrapped to the
\* first and Left has come back to the last.
C31_Witness ==
    /\ Count = 4
    /\ Len(pressed) = 3
    /\ pressed[1].index = 3
    /\ pressed[2] = [op |-> "right", index |-> 0]
    /\ pressed[3] = [op |-> "left", index |-> 3]
    /\ selected_index = 3

\* The indexes count presses of one key have ended on.
OnlyPressed(op) == \A k \in 2..Len(pressed) : pressed[k].op = op
EndedOn == {pressed[k].index : k \in 2..Len(pressed)}

\* C32: count presses of Right from any valid index end on every index of
\* the card list once, the last of them on the index they started from; and
\* so do count presses of Left.
C32_KeysReachEveryCard ==
    \A op \in {"left", "right"} :
        (Count >= 1 /\ Len(pressed) = Count + 1 /\ OnlyPressed(op))
        => /\ EndedOn = 0..(Count - 1)
           /\ \A j, k \in 2..Len(pressed) : j # k => pressed[j].index # pressed[k].index
           /\ pressed[Len(pressed)].index = pressed[1].index
           /\ selected_index = pressed[1].index

\* C32 witness: five presses of Right from the third of five cards are back
\* on the third card.
C32_Witness ==
    /\ Count = 5
    /\ Len(pressed) = 6
    /\ OnlyPressed("right")
    /\ pressed[1].index = 2
    /\ pressed[3].index = 4
    /\ pressed[4].index = 0
    /\ selected_index = 2

\* C33: a click on a widget that is no displayed card, and every click while
\* there are no cards, leaves selected_index as it was, posts nothing,
\* dismisses nothing and raises nothing.
C33_ClickElsewhereInert ==
    [][\A w \in ClickTargets :
          (on_click(w) /\ (w = OtherWidget \/ skill_cards = <<>>))
          => /\ selected_index' = selected_index
             /\ skill_cards' = skill_cards
             /\ effects' = effects
             /\ raised' = raised]_vars

\* C33 witness: a click beside the cards, with a card other than the first
\* highlighted, has left the highlight and resolved nothing.
C33_Witness ==
    /\ last.op = "click_other"
    /\ last.from_index >= 1
    /\ selected_index = last.from_index
    /\ skill_cards[selected_index + 1].selected
    /\ grid.display
    /\ effects = <<>>

====
